---- MODULE Spec2Model ----
(***************************************************************************)
(* Model of src/football_data_api_function.js: the scheduled handler that  *)
(* pulls competitions, standings and finished matches from the football    *)
(* API and writes them to the document store.                              *)
(*                                                                         *)
(* One step of the model is one stretch of the handler between two awaits  *)
(* (JavaScript runs such a stretch without interruption).  The store is    *)
(* read or written at the step on which the awaited store call completes.  *)
(* An endpoint is the sequence of its characters, so that startsWith,      *)
(* endsWith, includes and split work on it as they do in the code.         *)
(***************************************************************************)
EXTENDS Integers, Sequences, FiniteSets, TLC

(***************************************************************************)
(* Bounds of the model.                                                    *)
(***************************************************************************)
\* invocations of the handler in one behaviour
MaxRuns == 2
\* injected failures (initialisation, fetch, store call) in one behaviour
MaxFaults == 1
\* budgets 0..MaxBudget are tried besides the built-in one
MaxBudget == 2

\* the invocations that may exist at the same time
Procs == {1, 2}

(***************************************************************************)
(* Strings as character sequences.                                         *)
(***************************************************************************)
StartsWith(s, t) == Len(s) >= Len(t) /\ SubSeq(s, 1, Len(t)) = t

EndsWith(s, t) == Len(s) >= Len(t) /\ SubSeq(s, Len(s) - Len(t) + 1, Len(s)) = t

Includes(s, t) == \E i \in 1..(Len(s) - Len(t) + 1) : SubSeq(s, i, i + Len(t) - 1) = t

\* s.split(sep) for a one-character separator
RECURSIVE Split(_, _)
Split(s, sep) ==
  IF \A i \in 1..Len(s) : s[i] # sep
  THEN <<s>>
  ELSE LET j == CHOOSE i \in 1..Len(s) : s[i] = sep /\ \A h \in 1..(i - 1) : s[h] # sep
       IN  <<SubSeq(s, 1, j - 1)>> \o Split(SubSeq(s, j + 1, Len(s)), sep)

\* the value of an index past the end of an array
Undefined == <<"undefined">>

\* a[n] with JavaScript's zero-based index
At(a, n) == IF n + 1 <= Len(a) THEN a[n + 1] ELSE Undefined

\* a.slice(from, to)
Slice(a, from, to) == SubSeq(a, from + 1, IF to < Len(a) THEN to ELSE Len(a))

competitionsPrefix == <<"/", "c", "o", "m", "p", "e", "t", "i", "t", "i", "o", "n", "s", "/">>
standingsSuffix == <<"/", "s", "t", "a", "n", "d", "i", "n", "g", "s">>
matchesPart == <<"/", "m", "a", "t", "c", "h", "e", "s">>
finishedQuery == <<"?", "s", "t", "a", "t", "u", "s", "=", "F", "I", "N", "I", "S", "H", "E", "D">>

PL == <<"P", "L">>
CL == <<"C", "L">>
EC == <<"E", "C">>
\* a code outside the built-in queue
BSA == <<"B", "S", "A">>
Codes == {PL, CL, EC, BSA}

\* the endpoint of a task of a kind for a competition code
Endpoint(kind, code) ==
  CASE kind = "Competition" -> competitionsPrefix \o code
    [] kind = "Standing"    -> competitionsPrefix \o code \o standingsSuffix
    [] kind = "Match"       -> competitionsPrefix \o code \o matchesPart \o finishedQuery
    [] OTHER                -> <<"/", "a", "r", "e", "a", "s">>


(***************************************************************************)
(* Configuration: the task queue and the request budget.  The code fixes   *)
(* both; the model also runs shorter queues and smaller budgets.           *)
(***************************************************************************)
\* const maxRequests = 10
maxRequestsBuiltIn == 10

Task(kind, code) == [endpoint |-> Endpoint(kind, code), kind |-> kind, code |-> code]

\* const tasks = [...]: the nine tasks (kind and code are annotations, the
\* priority field is in Priority below)
tasksBuiltIn ==
  << Task("Competition", PL), Task("Standing", PL), Task("Match", PL),
     Task("Competition", CL), Task("Standing", CL), Task("Match", CL),
     Task("Competition", EC), Task("Standing", EC), Task("Match", EC) >>

Priority(task) ==
  CASE task.kind = "Competition" -> 1
    [] task.kind = "Standing"    -> 2
    [] task.kind = "Match"       -> 3
    [] OTHER                     -> 0

TaskLists ==
  [ builtin |-> tasksBuiltIn,
    single  |-> << Task("Competition", PL), Task("Standing", PL), Task("Match", PL) >>,
    trio    |-> << Task("Competition", CL), Task("Standing", CL), Task("Match", CL) >>,
    mixed   |-> << Task("Match", BSA), Task("Other", BSA), Task("Standing", BSA),
                   Task("Competition", BSA) >> ]

Budgets == (0..MaxBudget) \cup {maxRequestsBuiltIn}

(***************************************************************************)
(* Upstream responses (response.data).  A field that JavaScript would find *)
(* undefined has defined |-> FALSE.                                        *)
(***************************************************************************)
Absent == [defined |-> FALSE]

TeamNames == <<"Arsenal", "Chelsea", "Everton", "Fulham", "Leeds", "Liverpool",
               "Luton", "Spurs", "Watford", "Wolves", "Burnley", "Brentford">>

Row(i) == [position |-> i, team |-> [defined |-> TRUE, name |-> TeamNames[i]],
           points |-> 40 - 3 * i, playedGames |-> 12]

\* a table row without its team object
RowNoTeam(i) == [position |-> i, team |-> Absent, points |-> 40 - 3 * i, playedGames |-> 12]

Table(n) == [i \in 1..n |-> Row(i)]

StandingsData(table) ==
  [isNull |-> FALSE,
   standings |-> [defined |-> TRUE, list |-> << [table |-> [defined |-> TRUE, list |-> table]] >>]]

CompetitionData(name, area) ==
  [isNull |-> FALSE, name |-> name, area |-> area]

Area(name) == [defined |-> TRUE, name |-> name]

Entry(id, status) ==
  [id |-> id, status |-> status,
   homeTeam |-> [defined |-> TRUE, name |-> "Home"],
   awayTeam |-> [defined |-> TRUE, name |-> "Away"],
   score |-> [fullTime |-> [home |-> "2", away |-> "undefined"]],
   utcDate |-> "2024-05-19T15:00:00Z"]

\* a match entry without its homeTeam object
EntryNoHome(id, status) == [Entry(id, status) EXCEPT !.homeTeam = Absent]

MatchesData(list) == [isNull |-> FALSE, matches |-> [defined |-> TRUE, list |-> list]]

\* a body that is null (an empty or non-JSON reply)
NullData == [isNull |-> TRUE]

\* eleven entries: FINISHED, SCHEDULED, FINISHED, seven more not finished, and
\* an eleventh that is FINISHED
ElevenMatches ==
  [i \in 1..11 |-> Entry(100 + i, IF i \in {1, 3, 11} THEN "FINISHED"
                                  ELSE IF i = 2 THEN "SCHEDULED" ELSE "TIMED")]

Scenarios == {"regular", "ragged", "brief"}

Upstream(sc, task) ==
  IF sc = "regular" THEN
    CASE task.kind = "Competition" ->
           CompetitionData(IF task.code = PL THEN "Premier League" ELSE "Cup", Area("England"))
      [] task.kind = "Standing" ->
           StandingsData(Table(IF task.code \in {PL, BSA} THEN 12 ELSE IF task.code = CL THEN 2 ELSE 0))
      [] task.kind = "Match" ->
           IF task.code \in {PL, BSA} THEN MatchesData(ElevenMatches)
           ELSE IF task.code = CL
             THEN MatchesData(<< Entry(101, "FINISHED"), Entry(200, "FINISHED"),
                                 Entry(200, "FINISHED"), Entry(201, "finished") >>)
             ELSE MatchesData(<< >>)
      [] OTHER -> NullData
  ELSE IF sc = "brief" THEN
    CASE task.kind = "Competition" -> CompetitionData("Cup", Area("Europe"))
      [] task.kind = "Standing" ->
           IF task.code = EC
             THEN [isNull |-> FALSE, standings |-> [defined |-> TRUE, list |-> << >>]]
           ELSE IF task.code = BSA
             THEN [isNull |-> FALSE,
                   standings |-> [defined |-> TRUE, list |-> << [table |-> Absent] >>]]
           ELSE StandingsData(Table(1))
      [] task.kind = "Match" ->
           MatchesData(<< Entry(200, "FINISHED"), Entry(201, "POSTPONED") >>)
      [] OTHER -> NullData
  ELSE
    CASE task.kind = "Competition" ->
           IF task.code = PL THEN CompetitionData("Premier League", Absent)
           ELSE IF task.code = EC THEN NullData
           ELSE CompetitionData("Champions League", Area("Europe"))
      [] task.kind = "Standing" ->
           IF task.code \in {PL, BSA} THEN StandingsData(<< Row(1), RowNoTeam(2), Row(3) >>)
           ELSE IF task.code = CL THEN [isNull |-> FALSE, standings |-> Absent]
           ELSE NullData
      [] task.kind = "Match" ->
           IF task.code \in {PL, BSA}
             THEN MatchesData(<< Entry(300, "FINISHED"), EntryNoHome(301, "FINISHED"),
                                 Entry(302, "FINISHED") >>)
           ELSE IF task.code = CL THEN [isNull |-> FALSE, matches |-> Absent]
           ELSE NullData
      [] OTHER -> NullData


(***************************************************************************)
(* Classification of an endpoint (the if / else-if chain of the handler).  *)
(***************************************************************************)
\* the chain with the bare-competition test first
ClassifyCompetitionFirst(endpoint) ==
  IF StartsWith(endpoint, competitionsPrefix) /\ ~Includes(endpoint, matchesPart)
    THEN "Competition"
  ELSE IF StartsWith(endpoint, competitionsPrefix) /\ EndsWith(endpoint, standingsSuffix)
    THEN "Standing"
  ELSE IF Includes(endpoint, matchesPart)
    THEN "Match"
  ELSE "None"

Classify(endpoint) ==
  IF StartsWith(endpoint, competitionsPrefix) /\ EndsWith(endpoint, standingsSuffix)
    THEN "Standing"
  ELSE IF StartsWith(endpoint, competitionsPrefix) /\ ~Includes(endpoint, matchesPart)
    THEN "Competition"
  ELSE IF Includes(endpoint, matchesPart)
    THEN "Match"
  ELSE "None"

\* endpoint.split('/')[2]
CompCodeOf(endpoint) == At(Split(endpoint, "/"), 2)

(***************************************************************************)
(* The document store.                                                     *)
(***************************************************************************)
EmptyStore == [competitions |-> << >>, standings |-> << >>, matches |-> << >>]

\* sdk.ID.unique(): an identifier no document of the store has
UniqueId(st) == Len(st.competitions) + Len(st.standings) + Len(st.matches) + 1

\* name and area name swapped
CompetitionDocSwapped(id, code, d) ==
  [id |-> id, code |-> code, name |-> d.area.name, area_name |-> d.name]

CompetitionDoc(id, code, d) ==
  [id |-> id, code |-> code, name |-> d.name, area_name |-> d.area.name]

StandingDoc(id, code, standing) ==
  [id |-> id, competition_code |-> code, position |-> standing.position,
   team_name |-> standing.team.name, points |-> standing.points,
   played_games |-> standing.playedGames]

\* x ?? null
OrNull(x) == IF x = "undefined" THEN "null" ELSE x

MatchDoc(id, code, match) ==
  [id |-> id, match_id |-> match.id, competition_code |-> code,
   home_team_name |-> match.homeTeam.name, away_team_name |-> match.awayTeam.name,
   score_home |-> OrNull(match.score.fullTime.home),
   score_away |-> OrNull(match.score.fullTime.away),
   status |-> match.status, utc_date |-> match.utcDate]

\* a query on an attribute no competition has: nothing is found
ListCompetitionsWrongKey(st, code) == SelectSeq(st.competitions, LAMBDA d : FALSE)

\* listDocuments(..., [Query.equal('code', code)]).documents
ListCompetitions(st, code) == SelectSeq(st.competitions, LAMBDA d : d.code = code)

\* a query on the document id instead of match_id
ListMatchesWrongKey(st, id) == SelectSeq(st.matches, LAMBDA d : d.id = id)

\* listDocuments(..., [Query.equal('match_id', id)]).documents
ListMatches(st, id) == SelectSeq(st.matches, LAMBDA d : d.match_id = id)

\* a store another system has already written to, without duplicates
SeededStore ==
  [competitions |-> << [id |-> 1, code |-> PL, name |-> "Old League", area_name |-> "Nowhere"] >>,
   standings |-> << >>,
   matches |-> << MatchDoc(2, PL, Entry(101, "FINISHED")) >>]

InitialStores == {EmptyStore, SeededStore}

(***************************************************************************)
(* State.                                                                  *)
(***************************************************************************)
VARIABLES
  taskList,      \* which queue of TaskLists the handler is built with
  maxRequests,   \* the budget
  scenario,      \* what the upstream API answers
  store,         \* the three collections
  runs,          \* invocations started so far
  faults,        \* failures injected so far
  pc,            \* where each invocation is suspended
  taskIdx,       \* position in the queue of the task in hand
  requestsMade,  \* let requestsMade
  data,          \* response.data of the task in hand
  compCode,      \* const compCode
  standings,     \* const standings
  matches,       \* const matches
  pos,           \* position of the for-of loop over standings or matches
  logs,          \* const logs
  result,        \* what context.res.json was given
  contextLog,    \* INFO and ERROR lines given to context.log
  initialStore,  \* history: the store before the first invocation
  overlapped,    \* history: an invocation has started while another was running
  branch,        \* history: the branch of the chain that took the task in hand
  calls,         \* history: axios.get calls of the invocation
  ops,           \* history: store calls completed for the task in hand
  finished       \* history: the store at each return

vars == << taskList, maxRequests, scenario, store, runs, faults, pc, taskIdx,
           requestsMade, data, compCode, standings, matches, pos, logs, result,
           contextLog, initialStore, overlapped, branch, calls, ops, finished >>

config == << taskList, maxRequests, scenario, initialStore >>
locals == << data, compCode, standings, matches, pos >>

\* the queue reordered by ascending priority
tasksByPriority ==
  LET queue == TaskLists[taskList]
      priority(t) == CASE t.kind = "Competition" -> 1 [] t.kind = "Standing" -> 2
                       [] t.kind = "Match" -> 3 [] OTHER -> 0
  IN  SelectSeq(queue, LAMBDA t : priority(t) = 0) \o SelectSeq(queue, LAMBDA t : priority(t) = 1)
        \o SelectSeq(queue, LAMBDA t : priority(t) = 2) \o SelectSeq(queue, LAMBDA t : priority(t) = 3)

tasks == TaskLists[taskList]

NoResult == [status |-> "none"]

NoBranch == [task |-> 0, kind |-> "None", code |-> Undefined]

Init ==
  /\ taskList \in DOMAIN TaskLists
  /\ maxRequests \in Budgets
  /\ scenario \in Scenarios
  /\ store \in InitialStores
  /\ initialStore = store
  /\ overlapped = FALSE
  /\ branch = [p \in Procs |-> NoBranch]
  /\ runs = 0
  /\ faults = 0
  /\ pc = [p \in Procs |-> "idle"]
  /\ taskIdx = [p \in Procs |-> 0]
  /\ requestsMade = [p \in Procs |-> 0]
  /\ data = [p \in Procs |-> NullData]
  /\ compCode = [p \in Procs |-> Undefined]
  /\ standings = [p \in Procs |-> << >>]
  /\ matches = [p \in Procs |-> << >>]
  /\ pos = [p \in Procs |-> 0]
  /\ logs = [p \in Procs |-> << >>]
  /\ result = [p \in Procs |-> NoResult]
  /\ contextLog = [p \in Procs |-> << >>]
  /\ calls = [p \in Procs |-> 0]
  /\ ops = [p \in Procs |-> << >>]
  /\ finished = << >>


(***************************************************************************)
(* Control: what a stretch of the handler ends with.                       *)
(***************************************************************************)
\* suspended at an await
Await(p, where) ==
  /\ pc' = [pc EXCEPT ![p] = where]
  /\ UNCHANGED << taskIdx, contextLog >>

\* the end of a task reported as a failure
TaskDoneAsError(p) ==
  /\ pc' = [pc EXCEPT ![p] = "loop"]
  /\ taskIdx' = [taskIdx EXCEPT ![p] = @ + 1]
  /\ contextLog' = [contextLog EXCEPT ![p] = Append(@, [level |-> "ERROR", task |-> taskIdx[p]])]

\* the body of the for-of loop over tasks ran to its end
TaskDone(p) ==
  /\ pc' = [pc EXCEPT ![p] = "loop"]
  /\ taskIdx' = [taskIdx EXCEPT ![p] = @ + 1]
  /\ UNCHANGED contextLog

\* a catch that leaves the loop
CatchAbort(p) ==
  /\ pc' = [pc EXCEPT ![p] = "loop"]
  /\ taskIdx' = [taskIdx EXCEPT ![p] = Len(TaskLists[taskList]) + 1]
  /\ contextLog' = [contextLog EXCEPT ![p] = Append(@, [level |-> "ERROR", task |-> taskIdx[p]])]

\* a catch that starts the failed task again
CatchRetry(p) ==
  /\ pc' = [pc EXCEPT ![p] = "loop"]
  /\ taskIdx' = [taskIdx EXCEPT ![p] = @]
  /\ contextLog' = [contextLog EXCEPT ![p] = Append(@, [level |-> "ERROR", task |-> taskIdx[p]])]

\* catch (error) { context.log(`ERROR: Failed task ...`) }
Catch(p) ==
  /\ pc' = [pc EXCEPT ![p] = "loop"]
  /\ taskIdx' = [taskIdx EXCEPT ![p] = @ + 1]
  /\ contextLog' = [contextLog EXCEPT ![p] = Append(@, [level |-> "ERROR", task |-> taskIdx[p]])]

\* return context.res.json(res)
Return(p, res) ==
  /\ pc' = [pc EXCEPT ![p] = "idle"]
  /\ result' = [result EXCEPT ![p] = res]
  /\ finished' = Append(finished, [store |-> store, status |-> res.status,
                                   errors |-> Len(SelectSeq(contextLog[p], LAMBDA l : l.level = "ERROR")),
                                   requests_made |-> requestsMade[p]])
  /\ data' = [data EXCEPT ![p] = NullData]
  /\ compCode' = [compCode EXCEPT ![p] = Undefined]
  /\ standings' = [standings EXCEPT ![p] = << >>]
  /\ matches' = [matches EXCEPT ![p] = << >>]
  /\ pos' = [pos EXCEPT ![p] = 0]

\* a result that reports an error as soon as a task has thrown
SuccessResultUnlessFailed(p) ==
  [status |-> IF \E n \in 1..Len(contextLog[p]) : contextLog[p][n].level = "ERROR"
              THEN "error" ELSE "success",
   logs |-> logs[p], requests_made |-> requestsMade[p]]

\* a result that returns the lines given to context.log as its logs
SuccessResultWithSink(p) ==
  [status |-> "success", logs |-> contextLog[p], requests_made |-> requestsMade[p]]

SuccessResult(p) == [status |-> "success", logs |-> logs[p], requests_made |-> requestsMade[p]]

\* the result of the outer catch, with the logs list as it is
ErrorResult(l) == [status |-> "error", message |-> "init", logs |-> l]

\* the table without slice(0, 10)
StandingsOfUnsliced(d) ==
  IF /\ d.standings.defined
     /\ Len(d.standings.list) >= 1
     /\ d.standings.list[1].table.defined
  THEN d.standings.list[1].table.list
  ELSE << >>

\* data.standings?.[0]?.table?.slice(0, 10) || []
StandingsOf(d) ==
  IF /\ d.standings.defined
     /\ Len(d.standings.list) >= 1
     /\ d.standings.list[1].table.defined
  THEN Slice(d.standings.list[1].table.list, 0, 10)
  ELSE << >>

\* the status filter applied before the slice
MatchesOfFilteredFirst(d) ==
  IF d.matches.defined
  THEN Slice(SelectSeq(d.matches.list, LAMBDA m : m.status = "FINISHED"), 0, 10)
  ELSE << >>

\* data.matches?.slice(0, 10) || []
MatchesOf(d) == IF d.matches.defined THEN Slice(d.matches.list, 0, 10) ELSE << >>

\* the next entry after position from that passes match.status === 'FINISHED'
\* (0: none)
NextFinished(list, from) ==
  IF \E j \in (from + 1)..Len(list) : list[j].status = "FINISHED"
  THEN CHOOSE j \in (from + 1)..Len(list) :
         /\ list[j].status = "FINISHED"
         /\ \A h \in (from + 1)..(j - 1) : list[h].status # "FINISHED"
  ELSE 0

\* the for-of loop over standings reaches the row at position i: the document
\* is built from the row, then createDocument is awaited
EnterStanding(p, list, i) ==
  /\ pos' = [pos EXCEPT ![p] = i]
  /\ IF list[i].team.defined THEN Await(p, "createStanding") ELSE Catch(p)

\* the for-of loop over matches goes on after position from
AdvanceMatch(p, list, from) ==
  LET j == NextFinished(list, from)
  IN  IF j = 0
      THEN /\ pos' = [pos EXCEPT ![p] = Len(list)]
           /\ TaskDone(p)
      ELSE /\ pos' = [pos EXCEPT ![p] = j]
           /\ Await(p, "listMatches")

StoreOp(op, collection, at, ok) == [op |-> op, collection |-> collection, pos |-> at, ok |-> ok]

(***************************************************************************)
(* The handler.                                                            *)
(***************************************************************************)
\* the handler is invoked and runs up to the loop over the tasks
Invoke(p) ==
  /\ pc[p] = "idle"
  /\ runs < MaxRuns
  /\ runs' = runs + 1
  /\ pc' = [pc EXCEPT ![p] = "loop"]
  /\ taskIdx' = [taskIdx EXCEPT ![p] = 1]
  /\ requestsMade' = [requestsMade EXCEPT ![p] = 0]
  /\ logs' = [logs EXCEPT ![p] = << >>]
  /\ result' = [result EXCEPT ![p] = NoResult]
  /\ contextLog' = [contextLog EXCEPT ![p] = << >>]
  /\ calls' = [calls EXCEPT ![p] = 0]
  /\ ops' = [ops EXCEPT ![p] = << >>]
  /\ branch' = [branch EXCEPT ![p] = NoBranch]
  /\ overlapped' = (overlapped \/ \E q \in Procs \ {p} : pc[q] # "idle")
  /\ UNCHANGED << config, store, faults, locals, finished >>

\* the client set-up throws: the outer catch returns the error result
InitFail(p) ==
  /\ pc[p] = "idle"
  /\ runs < MaxRuns
  /\ faults < MaxFaults
  /\ runs' = runs + 1
  /\ faults' = faults + 1
  /\ taskIdx' = [taskIdx EXCEPT ![p] = 0]
  /\ requestsMade' = [requestsMade EXCEPT ![p] = 0]
  /\ logs' = [logs EXCEPT ![p] = << >>]
  /\ contextLog' = [contextLog EXCEPT ![p] = << [level |-> "ERROR", task |-> 0] >>]
  /\ calls' = [calls EXCEPT ![p] = 0]
  /\ ops' = [ops EXCEPT ![p] = << >>]
  /\ pc' = pc
  /\ result' = [result EXCEPT ![p] = ErrorResult(logs'[p])]
  /\ finished' = Append(finished, [store |-> store, status |-> "error", errors |-> 1,
                                   requests_made |-> 0])
  /\ branch' = [branch EXCEPT ![p] = NoBranch]
  /\ UNCHANGED << config, overlapped, store, locals >>

\* the loop without the test of the budget
LoopNextUnchecked(p) ==
  /\ pc[p] = "loop"
  /\ taskIdx[p] <= Len(tasks)
  /\ pc' = [pc EXCEPT ![p] = "fetch"]
  /\ calls' = [calls EXCEPT ![p] = @ + 1]
  /\ UNCHANGED << config, overlapped, branch, store, runs, faults, taskIdx, requestsMade,
                  locals, logs, result, contextLog, ops, finished >>

\* if (requestsMade >= maxRequests) is false: axios.get is called
LoopNext(p) ==
  /\ pc[p] = "loop"
  /\ taskIdx[p] <= Len(tasks)
  /\ requestsMade[p] < maxRequests
  /\ pc' = [pc EXCEPT ![p] = "fetch"]
  /\ calls' = [calls EXCEPT ![p] = @ + 1]
  /\ UNCHANGED << config, overlapped, branch, store, runs, faults, taskIdx, requestsMade, locals, logs,
                  result, contextLog, ops, finished >>

\* the budget test taken two requests early
MaxRequestsReachedEarly(p) ==
  /\ pc[p] = "loop"
  /\ taskIdx[p] <= Len(tasks)
  /\ requestsMade[p] + 2 >= maxRequests
  /\ contextLog' = [contextLog EXCEPT ![p] = Append(@, [level |-> "INFO", task |-> taskIdx[p]])]
  /\ Return(p, SuccessResult(p))
  /\ UNCHANGED << config, overlapped, branch, store, runs, faults, taskIdx, requestsMade, logs, calls, ops >>

\* if (requestsMade >= maxRequests) { ...; break; } and the return after the loop
MaxRequestsReached(p) ==
  /\ pc[p] = "loop"
  /\ taskIdx[p] <= Len(tasks)
  /\ requestsMade[p] >= maxRequests
  /\ contextLog' = [contextLog EXCEPT ![p] = Append(@, [level |-> "INFO", task |-> taskIdx[p]])]
  /\ Return(p, SuccessResult(p))
  /\ UNCHANGED << config, overlapped, branch, store, runs, faults, taskIdx, requestsMade, logs, calls, ops >>

\* a loop that looks for one task more than the queue has
LoopEndLate(p) ==
  /\ pc[p] = "loop"
  /\ taskIdx[p] > Len(tasks) + 1
  /\ Return(p, SuccessResult(p))
  /\ UNCHANGED << config, overlapped, branch, store, runs, faults, taskIdx, requestsMade, logs,
                  contextLog, calls, ops >>

\* the queue is exhausted: the return after the loop
LoopEnd(p) ==
  /\ pc[p] = "loop"
  /\ taskIdx[p] > Len(tasks)
  /\ Return(p, SuccessResult(p))
  /\ UNCHANGED << config, overlapped, branch, store, runs, faults, taskIdx, requestsMade, logs, contextLog,
                  calls, ops >>

\* a rejected axios.get that is counted all the same
FetchFailCounted(p) ==
  /\ pc[p] = "fetch"
  /\ faults < MaxFaults
  /\ faults' = faults + 1
  /\ ops' = [ops EXCEPT ![p] = << >>]
  /\ branch' = [branch EXCEPT ![p] = NoBranch]
  /\ requestsMade' = [requestsMade EXCEPT ![p] = @ + 1]
  /\ Catch(p)
  /\ UNCHANGED << config, overlapped, store, runs, locals, logs, result, calls, finished >>

\* axios.get throws (network error, error status)
FetchFail(p) ==
  /\ pc[p] = "fetch"
  /\ faults < MaxFaults
  /\ faults' = faults + 1
  /\ ops' = [ops EXCEPT ![p] = << >>]
  /\ branch' = [branch EXCEPT ![p] = NoBranch]
  /\ Catch(p)
  /\ UNCHANGED << config, overlapped, store, runs, requestsMade, locals, logs, result, calls, finished >>

\* axios.get returns: the counter, the classification and the branch up to its
\* first await
FetchOk(p) ==
  /\ pc[p] = "fetch"
  /\ LET task == tasks[taskIdx[p]]
         endpoint == task.endpoint
         d == Upstream(scenario, task)
         kind == Classify(endpoint)
         code == CompCodeOf(endpoint)
     IN  /\ requestsMade' = [requestsMade EXCEPT ![p] = @ + 1]
         /\ data' = [data EXCEPT ![p] = d]
         /\ ops' = [ops EXCEPT ![p] = << >>]
         /\ branch' = [branch EXCEPT ![p] = [task |-> taskIdx[p], kind |-> kind,
                                               code |-> IF kind = "None" THEN Undefined ELSE code]]
         /\ CASE kind = "Standing" ->
                   /\ compCode' = [compCode EXCEPT ![p] = code]
                   /\ UNCHANGED matches
                   /\ IF d.isNull
                      THEN Catch(p) /\ UNCHANGED << standings, pos >>
                      ELSE /\ standings' = [standings EXCEPT ![p] = StandingsOf(d)]
                           /\ IF StandingsOf(d) = << >>
                              THEN TaskDone(p) /\ UNCHANGED pos
                              ELSE EnterStanding(p, StandingsOf(d), 1)
              [] kind = "Competition" ->
                   /\ compCode' = [compCode EXCEPT ![p] = code]
                   /\ UNCHANGED << standings, matches, pos >>
                   /\ Await(p, "listCompetitions")
              [] kind = "Match" ->
                   /\ compCode' = [compCode EXCEPT ![p] = code]
                   /\ UNCHANGED standings
                   /\ IF d.isNull
                      THEN Catch(p) /\ UNCHANGED << matches, pos >>
                      ELSE /\ matches' = [matches EXCEPT ![p] = MatchesOf(d)]
                           /\ AdvanceMatch(p, MatchesOf(d), 0)
              [] OTHER ->
                   /\ UNCHANGED << compCode, standings, matches, pos >>
                   /\ TaskDone(p)
  /\ UNCHANGED << config, overlapped, store, runs, faults, logs, result, calls, finished >>

\* createDocument of a standing returns
CreateStandingOk(p) ==
  /\ pc[p] = "createStanding"
  /\ store' = [store EXCEPT !.standings =
                 Append(@, StandingDoc(UniqueId(store), compCode[p], standings[p][pos[p]]))]
  /\ ops' = [ops EXCEPT ![p] = Append(@, StoreOp("createDocument", "standings", pos[p], TRUE))]
  /\ IF pos[p] < Len(standings[p])
     THEN EnterStanding(p, standings[p], pos[p] + 1)
     ELSE TaskDone(p) /\ UNCHANGED pos
  /\ UNCHANGED << config, overlapped, branch, runs, faults, requestsMade, data, compCode, standings, matches,
                  logs, result, calls, finished >>

\* listDocuments of the competitions returns
ListCompetitionsOk(p) ==
  /\ pc[p] = "listCompetitions"
  /\ ops' = [ops EXCEPT ![p] = Append(@, StoreOp("listDocuments", "competitions", 0, TRUE))]
  /\ LET existingComps == ListCompetitions(store, compCode[p])
     IN  IF Len(existingComps) = 0
         THEN IF data[p].isNull \/ ~data[p].area.defined
              THEN Catch(p)
              ELSE Await(p, "createCompetition")
         ELSE TaskDone(p)
  /\ UNCHANGED << config, overlapped, branch, store, runs, faults, requestsMade, locals, logs, result, calls,
                  finished >>

\* createDocument of a competition returns
CreateCompetitionOk(p) ==
  /\ pc[p] = "createCompetition"
  /\ store' = [store EXCEPT !.competitions =
                 Append(@, CompetitionDoc(UniqueId(store), compCode[p], data[p]))]
  /\ ops' = [ops EXCEPT ![p] = Append(@, StoreOp("createDocument", "competitions", 0, TRUE))]
  /\ TaskDone(p)
  /\ UNCHANGED << config, overlapped, branch, runs, faults, requestsMade, locals, logs, result, calls, finished >>

\* listDocuments of the matches returns
ListMatchesOk(p) ==
  /\ pc[p] = "listMatches"
  /\ ops' = [ops EXCEPT ![p] = Append(@, StoreOp("listDocuments", "matches", pos[p], TRUE))]
  /\ LET match == matches[p][pos[p]]
         existingMatches == ListMatches(store, match.id)
     IN  IF Len(existingMatches) = 0
         THEN /\ UNCHANGED pos
              /\ IF match.homeTeam.defined /\ match.awayTeam.defined
                 THEN Await(p, "createMatch")
                 ELSE Catch(p)
         ELSE AdvanceMatch(p, matches[p], pos[p])
  /\ UNCHANGED << config, overlapped, branch, store, runs, faults, requestsMade, data, compCode, standings,
                  matches, logs, result, calls, finished >>

\* createDocument of a match returns
CreateMatchOk(p) ==
  /\ pc[p] = "createMatch"
  /\ store' = [store EXCEPT !.matches =
                 Append(@, MatchDoc(UniqueId(store), compCode[p], matches[p][pos[p]]))]
  /\ ops' = [ops EXCEPT ![p] = Append(@, StoreOp("createDocument", "matches", pos[p], TRUE))]
  /\ AdvanceMatch(p, matches[p], pos[p])
  /\ UNCHANGED << config, overlapped, branch, runs, faults, requestsMade, data, compCode, standings, matches,
                  logs, result, calls, finished >>

StoreCalls ==
  [ createStanding    |-> StoreOp("createDocument", "standings", 0, FALSE),
    listCompetitions  |-> StoreOp("listDocuments", "competitions", 0, FALSE),
    createCompetition |-> StoreOp("createDocument", "competitions", 0, FALSE),
    listMatches       |-> StoreOp("listDocuments", "matches", 0, FALSE),
    createMatch       |-> StoreOp("createDocument", "matches", 0, FALSE) ]

\* the awaited store call throws: nothing is read or written
StoreFail(p) ==
  /\ pc[p] \in DOMAIN StoreCalls
  /\ faults < MaxFaults
  /\ faults' = faults + 1
  /\ ops' = [ops EXCEPT ![p] = Append(@, [StoreCalls[pc[p]] EXCEPT !.pos = pos[p]])]
  /\ Catch(p)
  /\ UNCHANGED << config, overlapped, branch, store, runs, requestsMade, locals, logs, result, calls, finished >>

Step(p) ==
  \/ Invoke(p)
  \/ InitFail(p)
  \/ LoopNext(p)
  \/ MaxRequestsReached(p)
  \/ LoopEnd(p)
  \/ FetchFail(p)
  \/ FetchOk(p)
  \/ CreateStandingOk(p)
  \/ ListCompetitionsOk(p)
  \/ CreateCompetitionOk(p)
  \/ ListMatchesOk(p)
  \/ CreateMatchOk(p)
  \/ StoreFail(p)

\* invocations one after the other, as a schedule starts them
Next == Step(1)

Spec == Init /\ [][Next]_vars

\* what an invocation that has started does next
Running(p) ==
  \/ LoopNext(p)
  \/ MaxRequestsReached(p)
  \/ LoopEnd(p)
  \/ FetchFail(p)
  \/ FetchOk(p)
  \/ CreateStandingOk(p)
  \/ ListCompetitionsOk(p)
  \/ CreateCompetitionOk(p)
  \/ ListMatchesOk(p)
  \/ CreateMatchOk(p)
  \/ StoreFail(p)

\* every awaited call returns or throws in the end, and the event loop then
\* resumes the handler
InitFair ==
  /\ Init
  /\ taskList \in {"builtin", "mixed"}
  /\ maxRequests \in {1, maxRequestsBuiltIn}
  /\ scenario = "ragged"
  /\ store = EmptyStore

SpecFair == InitFair /\ [][Next]_vars /\ WF_vars(Running(1))

\* invocations that overlap
NextConcurrent == \E p \in Procs : Step(p)

InitConcurrent ==
  /\ Init
  /\ taskList = "trio"
  /\ maxRequests \in {1, maxRequestsBuiltIn}
  /\ scenario = "brief"
  /\ store = EmptyStore

SpecConcurrent == InitConcurrent /\ [][NextConcurrent]_vars


(***************************************************************************)
(* Properties.                                                             *)
(***************************************************************************)
IsPrefix(s, t) == Len(s) <= Len(t) /\ SubSeq(t, 1, Len(s)) = s

Errors(p) == SelectSeq(contextLog[p], LAMBDA l : l.level = "ERROR")

\* the task at position i of the invocation p has thrown
Failed(p, i) == \E n \in 1..Len(contextLog[p]) :
                  contextLog[p][n].level = "ERROR" /\ contextLog[p][n].task = i

NoDuplicateCode(st) ==
  \A i, j \in 1..Len(st.competitions) :
    st.competitions[i].code = st.competitions[j].code => i = j

NoDuplicateMatchId(st) ==
  \A i, j \in 1..Len(st.matches) :
    st.matches[i].match_id = st.matches[j].match_id => i = j

\* a document without its store identifier
Body(doc) == [doc EXCEPT !.id = 0]

Bodies(docs) == [i \in 1..Len(docs) |-> Body(docs[i])]

\* a run that returned success, logged no error and fetched every task
Clean(f) == f.status = "success" /\ f.errors = 0 /\ f.requests_made = Len(tasks)

C2_FailureDoesNotAbort ==
  [][\A p \in Procs :
       /\ IsPrefix(store.competitions, store'.competitions)
       /\ IsPrefix(store.standings, store'.standings)
       /\ IsPrefix(store.matches, store'.matches)
       /\ (pc[p] \notin {"idle", "loop"} /\ Len(Errors(p))' > Len(Errors(p))) =>
            /\ pc'[p] = "loop"
            /\ taskIdx'[p] = taskIdx[p] + 1
            /\ result'[p] = NoResult
       /\ (result'[p].status = "success") =>
            /\ calls'[p] = taskIdx'[p] - 1
            /\ taskIdx'[p] = Len(tasks) + 1 \/ requestsMade'[p] >= maxRequests
    ]_vars

\* C2 witness: the built-in run returned success although its second task
\* threw; the records of the first task and of later tasks are in the store.
C2_Witness ==
  /\ taskList = "builtin"
  /\ scenario = "regular"
  /\ initialStore = EmptyStore
  /\ result[1].status = "success"
  /\ Failed(1, 2)
  /\ calls[1] = Len(tasks)
  /\ Len(store.competitions) = 3
  /\ Len(store.matches) >= 3

\* C3: two clean runs of the whole queue on an empty store: the second leaves
\* the competitions and the matches as the first left them, without a
\* duplicate code or match id, and doubles the standings.
C3_SecondRunIdempotent ==
  (/\ initialStore = EmptyStore
   /\ Len(finished) >= 2
   /\ Clean(finished[1])
   /\ Clean(finished[2]))
  => LET first == finished[1].store
         second == finished[2].store
     IN  /\ second.competitions = first.competitions
         /\ second.matches = first.matches
         /\ NoDuplicateCode(second)
         /\ NoDuplicateMatchId(second)
         /\ Bodies(second.standings) = Bodies(first.standings) \o Bodies(first.standings)

\* C3 witness: two clean built-in runs on an empty store have returned, and
\* the first wrote competitions, matches and standings.
C3_Witness ==
  /\ taskList = "builtin"
  /\ initialStore = EmptyStore
  /\ Len(finished) >= 2
  /\ Clean(finished[1])
  /\ Clean(finished[2])
  /\ Len(finished[1].store.competitions) = 3
  /\ Len(finished[1].store.matches) >= 3
  /\ Len(finished[1].store.standings) >= 10

\* C4: with invocations one after the other, no two competitions share a
\* code and no two matches share a match id, whatever the responses and the
\* failures.
C4_NoDuplicateKeys == NoDuplicateCode(store) /\ NoDuplicateMatchId(store)

\* C4 witness: two runs have returned, a failure was injected, and the store
\* holds match 200, which the response of CL lists twice.
C4_Witness ==
  /\ scenario = "regular"
  /\ Len(finished) >= 2
  /\ faults >= 1
  /\ pc[1] = "idle"
  /\ \E i \in 1..Len(store.matches) : store.matches[i].match_id = 200
  /\ \E i \in 1..Len(store.competitions) : store.competitions[i].code = CL


\* C5: duplicates come from overlap.  While no invocation has started during
\* another one, the store has no duplicate code and no duplicate match id;
\* the witness is the state two interleaved invocations reach, where both
\* passed the existence check of the same key and both inserted.
C5_DuplicatesOnlyByOverlap ==
  (~NoDuplicateCode(store) \/ ~NoDuplicateMatchId(store)) => overlapped

\* C5 witness: both invocations fetched the three tasks and returned, and the
\* store holds two competitions with code CL and two matches with id 200.
C5_Witness ==
  /\ overlapped
  /\ Len(finished) = 2
  /\ result[1].status = "success" /\ result[1].requests_made = 3
  /\ result[2].status = "success" /\ result[2].requests_made = 3
  /\ Len(ListCompetitions(store, CL)) = 2
  /\ Len(ListMatches(store, 200)) = 2

\* C6: the branch that takes a task is the one of the task's kind (standings,
\* bare competition, matches), with the competition code of the endpoint as
\* compCode; an endpoint of no kind is taken by no branch.
C6_ClassifiedByKind ==
  \A p \in Procs :
    branch[p].task # 0 =>
      LET task == tasks[branch[p].task]
      IN  /\ task.kind \in {"Standing", "Competition", "Match"} =>
               /\ branch[p].kind = task.kind
               /\ branch[p].code = task.code
          /\ task.kind = "Other" => branch[p].kind = "None"
          /\ (pc[p] \in DOMAIN StoreCalls /\ branch[p].task = taskIdx[p]) =>
               /\ compCode[p] = task.code
               /\ pc[p] = "createStanding" => task.kind = "Standing"
               /\ pc[p] \in {"listCompetitions", "createCompetition"} => task.kind = "Competition"
               /\ pc[p] \in {"listMatches", "createMatch"} => task.kind = "Match"

\* C6 witness: the ninth built-in task, the matches of EC, went to the
\* matches branch after the eight before it were classified.
C6_Witness ==
  /\ taskList = "builtin"
  /\ branch[1] = [task |-> 9, kind |-> "Match", code |-> EC]
  /\ requestsMade[1] = 9


Min(a, b) == IF a < b THEN a ELSE b

\* the response of the task at position i of the queue
ResponseOf(i) == Upstream(scenario, tasks[i])

\* the task the invocation p has just brought to its end without a throw
JustDone(p, kind) ==
  /\ pc[p] = "loop"
  /\ branch[p].kind = kind
  /\ branch[p].task = taskIdx[p] - 1
  /\ ~Failed(p, branch[p].task)

\* the step of p completes the store call it was suspended at, without failure
Completes(p, where) == pc[p] = where /\ ops'[p] # ops[p] /\ faults' = faults

\* C7: a competition task for code c.  When the existence query finds a record
\* with code c, the task ends there: the store is unchanged (no insert, no
\* update of the record found), and no error is logged.  When it finds none,
\* and the response has its name and area, exactly one createDocument follows
\* and appends {code: c, name, area_name} of the response, and nothing else.
C7_CompetitionInsertIfAbsent ==
  [][\A p \in Procs :
       LET task == tasks[taskIdx[p]]
           response == ResponseOf(taskIdx[p])
           found == SelectSeq(store.competitions, LAMBDA d : d.code = task.code)
       IN  /\ Completes(p, "listCompetitions") =>
                /\ store' = store
                /\ found # << >> =>
                     /\ pc'[p] = "loop"
                     /\ taskIdx'[p] = taskIdx[p] + 1
                     /\ contextLog'[p] = contextLog[p]
                     /\ Len(ops'[p]) = 1
                /\ (found = << >> /\ ~response.isNull /\ response.area.defined) =>
                     pc'[p] = "createCompetition"
           /\ Completes(p, "createCompetition") =>
                /\ found = << >>
                /\ store'.competitions =
                     Append(store.competitions,
                            [id |-> UniqueId(store), code |-> task.code,
                             name |-> response.name, area_name |-> response.area.name])
                /\ store'.standings = store.standings
                /\ store'.matches = store.matches
                /\ pc'[p] = "loop"
                /\ taskIdx'[p] = taskIdx[p] + 1
                /\ contextLog'[p] = contextLog[p]
                /\ Len(ops'[p]) = 2
    ]_vars

\* C7 witness: a built-in run on the seeded store returned without an error:
\* the record of PL is the old one although the response names the
\* competition otherwise, and CL and EC were inserted once each.
C7_Witness ==
  /\ taskList = "builtin"
  /\ scenario = "regular"
  /\ initialStore = SeededStore
  /\ Len(finished) = 1
  /\ Clean(finished[1])
  /\ Len(store.competitions) = 3
  /\ store.competitions[1] = SeededStore.competitions[1]
  /\ ResponseOf(1).name # store.competitions[1].name
  /\ Body(store.competitions[2]) = [id |-> 0, code |-> CL, name |-> "Cup", area_name |-> "England"]

\* the table of a standings response, whole
ResponseTable(d) ==
  IF d.isNull THEN << >>
  ELSE IF ~d.standings.defined THEN << >>
  ELSE IF Len(d.standings.list) = 0 THEN << >>
  ELSE IF ~d.standings.list[1].table.defined THEN << >>
  ELSE d.standings.list[1].table.list

\* the standings of a code held by a store
StandingsFor(st, code) == SelectSeq(st.standings, LAMBDA d : d.competition_code = code)

\* the rows a clean run of the queue writes for a code
RowsPerRun(code) ==
  IF \E i \in 1..Len(tasks) : tasks[i].kind = "Standing" /\ tasks[i].code = code
  THEN LET i == CHOOSE i \in 1..Len(tasks) : tasks[i].kind = "Standing" /\ tasks[i].code = code
       IN  Min(Len(ResponseTable(ResponseOf(i))), 10)
  ELSE 0

\* the store an invocation started from, when invocations follow one another
StoreBefore(r) == IF r = 1 THEN initialStore ELSE finished[r - 1].store

\* C8: a standings task that ends without a throw has made exactly min(n, 10)
\* store calls, all createDocument on the standings, for rows 1..min(n, 10) in
\* table order and with no existence query, and the documents are the last
\* ones of the store; a clean run adds min(n, 10) standings per competition,
\* so a table of 12 rows gives 10 documents per run and 20 after two runs.
C8_FirstTenStandings ==
  /\ \A p \in Procs :
       JustDone(p, "Standing") =>
         LET task == tasks[branch[p].task]
             table == ResponseTable(ResponseOf(branch[p].task))
             m == Min(Len(table), 10)
             n == Len(store.standings)
         IN  /\ ops[p] = [i \in 1..m |-> StoreOp("createDocument", "standings", i, TRUE)]
             /\ n >= m
             /\ Bodies(SubSeq(store.standings, n - m + 1, n)) =
                  [i \in 1..m |->
                     [id |-> 0, competition_code |-> task.code,
                      position |-> table[i].position, team_name |-> table[i].team.name,
                      points |-> table[i].points, played_games |-> table[i].playedGames]]
  /\ \A r \in 1..Len(finished) :
       Clean(finished[r]) =>
         \A code \in Codes :
           Len(StandingsFor(finished[r].store, code)) =
             Len(StandingsFor(StoreBefore(r), code)) + RowsPerRun(code)

\* C8 witness: two clean built-in runs on an empty store: the table of PL has
\* 12 rows and the store holds 20 standings of PL, rows 1..10 twice.
C8_Witness ==
  /\ taskList = "builtin"
  /\ scenario = "regular"
  /\ initialStore = EmptyStore
  /\ Len(finished) = 2
  /\ Clean(finished[1])
  /\ Clean(finished[2])
  /\ Len(ResponseTable(ResponseOf(2))) = 12
  /\ Len(StandingsFor(finished[1].store, PL)) = 10
  /\ Len(StandingsFor(store, PL)) = 20
  /\ \A i \in 1..20 : StandingsFor(store, PL)[i].position = ((i - 1) % 10) + 1

\* the entries of a matches response, whole
ResponseMatches(d) ==
  IF d.isNull THEN << >>
  ELSE IF ~d.matches.defined THEN << >>
  ELSE d.matches.list

\* the positions of a matches response the task looks at
Considered(list) == {i \in 1..Min(Len(list), 10) : list[i].status = "FINISHED"}

\* what holds of the store calls of a matches task at any moment
MatchOpsWellFormed(p) ==
  LET list == ResponseMatches(ResponseOf(branch[p].task))
      o == ops[p]
  IN  /\ \A k \in 1..Len(o) :
           /\ o[k].collection = "matches"
           /\ o[k].pos \in Considered(list)
           /\ o[k].op = "createDocument" =>
                /\ k > 1
                /\ o[k - 1] = StoreOp("listDocuments", "matches", o[k].pos, TRUE)
           /\ (o[k].op = "listDocuments" /\ k > 1) => o[k - 1].pos < o[k].pos
      /\ JustDone(p, "Match") =>
           {o[k].pos : k \in {h \in 1..Len(o) : o[h].op = "listDocuments"}} = Considered(list)

\* C9: a matches task looks at the first 10 entries of the response only, and
\* among them at those whose status is FINISHED: each of these gets one
\* existence query by match id, in order, followed by a createDocument only
\* when the query found nothing; no other entry causes a store call.
C9_FirstTenThenFinished ==
  [][\A p \in Procs :
       /\ (branch'[p].kind = "Match") => MatchOpsWellFormed(p)'
       /\ Completes(p, "listMatches") =>
            LET list == ResponseMatches(ResponseOf(taskIdx[p]))
                found == SelectSeq(store.matches, LAMBDA d : d.match_id = list[pos[p]].id)
            IN  /\ store' = store
                /\ found # << >> => pc'[p] # "createMatch" /\ contextLog'[p] = contextLog[p]
                /\ (found = << >> /\ list[pos[p]].homeTeam.defined) => pc'[p] = "createMatch"
       /\ Completes(p, "createMatch") =>
            LET entry == ResponseMatches(ResponseOf(taskIdx[p]))[pos[p]]
            IN  /\ SelectSeq(store.matches, LAMBDA d : d.match_id = entry.id) = << >>
                /\ Len(store'.matches) = Len(store.matches) + 1
                /\ store'.matches[Len(store'.matches)].match_id = entry.id
                /\ store'.matches[Len(store'.matches)].status = "FINISHED"
                /\ store'.competitions = store.competitions
                /\ store'.standings = store.standings
    ]_vars

\* C9 witness: the matches task of PL has ended on a response of eleven
\* entries, FINISHED at 1, 3 and 11: it queried and inserted entries 1 and 3
\* and nothing else.
C9_Witness ==
  /\ taskList = "builtin"
  /\ scenario = "regular"
  /\ initialStore = EmptyStore
  /\ JustDone(1, "Match")
  /\ branch[1].task = 3
  /\ Len(ResponseMatches(ResponseOf(3))) = 11
  /\ ResponseMatches(ResponseOf(3))[11].status = "FINISHED"
  /\ ops[1] = << StoreOp("listDocuments", "matches", 1, TRUE),
                 StoreOp("createDocument", "matches", 1, TRUE),
                 StoreOp("listDocuments", "matches", 3, TRUE),
                 StoreOp("createDocument", "matches", 3, TRUE) >>
  /\ Len(store.matches) = 2

\* C10: the counter is incremented once for every call of axios.get: when no
\* call is in flight the counter equals the number of calls.
C10_OneIncrementPerCall ==
  \A p \in Procs : requestsMade[p] = calls[p] - (IF pc[p] = "fetch" THEN 1 ELSE 0)


\* C11: an invocation that has reached the loop returns the success result,
\* with the counter as requests_made, whatever its tasks did; the error
\* result comes only from an invocation that failed before the loop, which
\* made no call and took no task.
C11_SuccessOnceLoopStarted ==
  [][\A p \in Procs :
       /\ (pc[p] # "idle" /\ pc'[p] = "idle") =>
            /\ result'[p].status = "success"
            /\ result'[p].requests_made = requestsMade[p]
            /\ finished'[Len(finished')].status = "success"
       /\ (result'[p].status = "error") =>
            /\ calls'[p] = 0
            /\ taskIdx'[p] = 0
            /\ pc'[p] = "idle"
            /\ (result[p].status # "error" => pc[p] = "idle" /\ store' = store)
    ]_vars

\* C11 witness: every task of the queue of three threw, and the invocation
\* returned success.
C11_Witness ==
  /\ taskList = "single"
  /\ scenario = "ragged"
  /\ result[1].status = "success"
  /\ calls[1] = 3
  /\ \A i \in 1..3 : Failed(1, i)


\* the kind of branch that is to take a task of the queue
BranchFor(task) == IF task.kind = "Other" THEN "None" ELSE task.kind

\* C12: tasks are taken one at a time in the order of the queue.  The k-th
\* call of axios.get is made from the head of the loop, with no store call of
\* the invocation pending, and is for the k-th task of the queue as written,
\* whatever the priorities; a store call completes only for the task fetched
\* last; the position in the queue moves one forward at a time.
C12_OneTaskAtATimeInQueueOrder ==
  [][\A p \in Procs :
       LET queue == TaskLists[taskList]
       IN  /\ (calls'[p] = calls[p] + 1) =>
                /\ pc[p] = "loop"
                /\ pc'[p] = "fetch"
                /\ taskIdx[p] = calls'[p]
                /\ store' = store
           /\ (pc[p] = "fetch" /\ requestsMade'[p] = requestsMade[p] + 1) =>
                /\ branch'[p].task = calls[p]
                /\ branch'[p].kind = BranchFor(queue[calls[p]])
                /\ branch'[p].kind # "None" => branch'[p].code = queue[calls[p]].code
           /\ (pc[p] # "fetch" /\ ops'[p] # ops[p] /\ ops'[p] # << >>) =>
                /\ pc[p] \in DOMAIN StoreCalls
                /\ branch[p].task = calls[p]
                /\ taskIdx[p] = calls[p]
           /\ (store' # store) => \E q \in Procs : pc[q] \in DOMAIN StoreCalls /\ ops'[q] # ops[q]
           /\ (pc[p] # "idle" /\ taskIdx'[p] # taskIdx[p]) => taskIdx'[p] = taskIdx[p] + 1
    ]_vars

\* C12 witness: a clean run of the queue whose priorities are 3, 0, 2, 1: the
\* matches were written first, then the standings, then the competition.
C12_Witness ==
  /\ taskList = "mixed"
  /\ scenario = "regular"
  /\ initialStore = EmptyStore
  /\ Len(finished) = 1
  /\ Clean(finished[1])
  /\ Priority(tasks[1]) > Priority(tasks[3]) /\ Priority(tasks[3]) > Priority(tasks[4])
  /\ Len(store.matches) = 2 /\ Len(store.standings) = 10 /\ Len(store.competitions) = 1
  /\ store.matches[2].id < store.standings[1].id
  /\ store.standings[10].id < store.competitions[1].id


\* C13: once the counter has reached the budget the invocation makes no
\* further call and takes no further task: the task in hand is finished, and
\* at the head of the loop the invocation returns success with the rest of
\* the queue untouched and the store as it is.  Nothing is kept for the next
\* invocation, which starts at the first task with the counter at 0.
C13_BudgetEndsTheLoop ==
  [][\A p \in Procs :
       /\ (pc[p] # "idle" /\ requestsMade[p] >= maxRequests) =>
            /\ calls'[p] = calls[p]
            /\ requestsMade'[p] = requestsMade[p]
            /\ taskIdx'[p] <= calls[p] + 1
            /\ (store' # store => taskIdx[p] = calls[p])
            /\ (pc[p] = "loop" /\ pc'[p] # "loop") =>
                 /\ pc'[p] = "idle"
                 /\ result'[p].status = "success"
                 /\ result'[p].requests_made = requestsMade[p]
                 /\ store' = store
       /\ (pc[p] = "idle" /\ pc'[p] # "idle") =>
            /\ pc'[p] = "loop"
            /\ taskIdx'[p] = 1
            /\ requestsMade'[p] = 0
            /\ calls'[p] = 0
            /\ store' = store
       /\ (pc'[p] = "idle") =>
            /\ data'[p] = NullData
            /\ standings'[p] = << >>
            /\ matches'[p] = << >>
    ]_vars

\* C13 witness: two built-in runs with a budget of 2 have returned: each
\* fetched the first two tasks and stopped before the third, so the second
\* run did not take up the seven tasks the first one skipped.
C13_Witness ==
  /\ taskList = "builtin"
  /\ scenario = "regular"
  /\ initialStore = EmptyStore
  /\ maxRequests = 2
  /\ Len(finished) = 2
  /\ finished[1].requests_made = 2 /\ finished[2].requests_made = 2
  /\ result[1].status = "success"
  /\ taskIdx[1] = 3 /\ calls[1] = 2
  /\ \E n \in 1..Len(contextLog[1]) : contextLog[1][n] = [level |-> "INFO", task |-> 3]
  /\ Len(store.competitions) = 1
  /\ Len(store.standings) = 20
  /\ store.matches = << >>


\* C14: an invocation that has started returns in the end, given that every
\* awaited call returns or throws; it makes at most one call per task (no
\* retry), and a return is the only way it stops.
C14_EveryInvocationReturns ==
  /\ (pc[1] # "idle") ~> (pc[1] = "idle" /\ result[1].status = "success")
  /\ [](calls[1] <= Len(tasks) /\ taskIdx[1] <= Len(tasks) + 1)

\* C14 witness: a built-in run in which a call failed has gone through the
\* nine tasks and returned.
C14_Witness ==
  /\ taskList = "builtin"
  /\ faults >= 1
  /\ pc[1] = "idle"
  /\ result[1].status = "success"
  /\ calls[1] = 9
  /\ Len(Errors(1)) >= 1


\* the response has a body, and the path standings[0].table is absent in it
AbsentPath(d) ==
  /\ ~d.isNull
  /\ \/ ~d.standings.defined
     \/ Len(d.standings.list) = 0
     \/ ~d.standings.list[1].table.defined

\* C15: when the response to a standings call has no standings[0].table, the
\* step that receives it counts the call, takes the empty list, writes
\* nothing, logs nothing and goes on to the next task without any store call.
C15_AbsentPathIsEmptyList ==
  [][\A p \in Procs :
       ( /\ pc[p] = "fetch"
         /\ faults' = faults
         /\ Classify(tasks[taskIdx[p]].endpoint) = "Standing"
         /\ AbsentPath(ResponseOf(taskIdx[p])) )
       => /\ requestsMade'[p] = requestsMade[p] + 1
          /\ standings'[p] = << >>
          /\ store' = store
          /\ contextLog' = contextLog
          /\ ops'[p] = << >>
          /\ pc'[p] = "loop"
          /\ taskIdx'[p] = taskIdx[p] + 1]_vars

\* C15 witness: the fifth call of a built-in run got a body without
\* standings; five calls are counted, the task is over without an error and
\* the store has no standing of that competition.
C15_Witness ==
  /\ taskList = "builtin"
  /\ scenario = "ragged"
  /\ initialStore = EmptyStore
  /\ runs = 1
  /\ JustDone(1, "Standing")
  /\ branch[1].task = 5
  /\ AbsentPath(ResponseOf(5))
  /\ requestsMade[1] = 5
  /\ StandingsFor(store, CL) = << >>
  /\ ops[1] = << >>


\* the step of p throws while it handles a record of a table or a match list
ThrowsOnRecord(p) ==
  /\ Len(contextLog'[p]) = Len(contextLog[p]) + 1
  /\ contextLog'[p][Len(contextLog'[p])] = [level |-> "ERROR", task |-> taskIdx[p]]
  /\ branch'[p].kind \in {"Standing", "Match"}
  /\ ~data'[p].isNull

\* the last n documents of a collection
LastDocs(docs, n) == SubSeq(docs, Len(docs) - n + 1, Len(docs))

\* C16: when a standing or match task throws on its k-th record (the store
\* call fails or the entry lacks a field), the step removes nothing from the
\* store; the k-1 rows before it are the last standings of the store, the
\* finished matches before it are in the store; the loop goes on with the
\* next task; and as the task index never goes back and a record is only
\* written for the task in hand, the records after k are not written by this
\* invocation.
C16_FailureOnKthRecord ==
  [][\A p \in Procs :
       /\ ThrowsOnRecord(p) =>
            LET k == pos'[p]
            IN  /\ pc'[p] = "loop"
                /\ taskIdx'[p] = taskIdx[p] + 1
                /\ store'.competitions = store.competitions
                /\ IsPrefix(store.standings, store'.standings)
                /\ IsPrefix(store.matches, store'.matches)
                /\ branch'[p].kind = "Standing" =>
                     /\ Len(store'.standings) >= k - 1
                     /\ \A j \in 1..(k - 1) :
                          /\ LastDocs(store'.standings, k - 1)[j].position = standings'[p][j].position
                          /\ LastDocs(store'.standings, k - 1)[j].competition_code = branch'[p].code
                /\ branch'[p].kind = "Match" =>
                     \A j \in 1..(k - 1) :
                       matches'[p][j].status = "FINISHED" =>
                         \E n \in 1..Len(store'.matches) :
                           store'.matches[n].match_id = matches'[p][j].id
       /\ (pc[p] # "idle" /\ pc'[p] # "idle") => taskIdx'[p] >= taskIdx[p]
       /\ (pc[p] \in {"createStanding", "createMatch"} /\ store' # store) =>
            /\ ~Failed(p, taskIdx[p])
            /\ branch[p].task = taskIdx[p]
            /\ pc[p] = "createStanding" =>
                 /\ store'.standings = Append(store.standings, store'.standings[Len(store'.standings)])
                 /\ store'.standings[Len(store'.standings)].competition_code = CompCodeOf(tasks[taskIdx[p]].endpoint)
                 /\ store'.standings[Len(store'.standings)].position = standings[p][pos[p]].position
            /\ pc[p] = "createMatch" =>
                 /\ store'.matches = Append(store.matches, store'.matches[Len(store'.matches)])
                 /\ store'.matches[Len(store'.matches)].competition_code = CompCodeOf(tasks[taskIdx[p]].endpoint)
                 /\ store'.matches[Len(store'.matches)].match_id = matches[p][pos[p]].id]_vars

\* C16 witness: a built-in run on the empty store has returned; the second
\* table row and the second match of PL were malformed, so the store has the
\* first row and the first match of PL and neither the third row nor the
\* third match, and the tasks after them were carried out.
C16_Witness ==
  /\ taskList = "builtin"
  /\ scenario = "ragged"
  /\ initialStore = EmptyStore
  /\ runs = 1
  /\ faults = 0
  /\ pc[1] = "idle"
  /\ result[1].status = "success"
  /\ Failed(1, 2) /\ Failed(1, 3)
  /\ Len(StandingsFor(store, PL)) = 1
  /\ StandingsFor(store, PL)[1].position = 1
  /\ \E n \in 1..Len(store.matches) : store.matches[n].match_id = 300
  /\ \A n \in 1..Len(store.matches) : store.matches[n].match_id # 302
  /\ \E n \in 1..Len(store.competitions) : store.competitions[n].code = CL
  /\ calls[1] = 9


\* C17: the counter is reset by the invocation, left alone by an axios.get
\* that throws, raised by one by an axios.get that returns (whether or not
\* the processing of the response throws, in that step or later) and changed
\* by nothing else; the result carries it as requests_made.  So requests_made
\* is the number of responses received, and it is at least 0 and at most the
\* smaller of the budget and the number of tasks.
C17_RequestsMadeCountsResponses ==
  /\ [][\A p \in Procs :
         /\ (pc[p] = "idle" /\ pc'[p] # "idle") => requestsMade'[p] = 0
         /\ (pc[p] = "fetch" /\ pc'[p] # "fetch" /\ faults' # faults) =>
              /\ requestsMade'[p] = requestsMade[p]
              /\ Len(contextLog'[p]) = Len(contextLog[p]) + 1
         /\ (pc[p] = "fetch" /\ pc'[p] # "fetch" /\ faults' = faults) =>
              requestsMade'[p] = requestsMade[p] + 1
         /\ (pc[p] \notin {"idle", "fetch"}) => requestsMade'[p] = requestsMade[p]
         /\ (pc[p] # "idle" /\ pc'[p] = "idle") =>
              result'[p].requests_made = requestsMade[p]]_vars
  /\ [](\A p \in Procs :
         /\ requestsMade[p] >= 0
         /\ requestsMade[p] <= Min(maxRequests, Len(tasks))
         /\ requestsMade[p] <= calls[p]
         /\ requestsMade[p] + Len(Errors(p)) >= calls[p] - (IF pc[p] = "fetch" THEN 1 ELSE 0))

\* C17 witness: three calls were made; the first threw, the responses to the
\* other two were received and their processing threw: three errors, and
\* requests_made is 2.
C17_Witness ==
  /\ taskList = "single"
  /\ scenario = "ragged"
  /\ faults = 1
  /\ pc[1] = "idle"
  /\ result[1].status = "success"
  /\ result[1].requests_made = 2
  /\ calls[1] = 3
  /\ Len(Errors(1)) = 3
  /\ contextLog[1][1] = [level |-> "ERROR", task |-> 1]


\* C18: with the nine built-in tasks and the built-in budget of 10, no
\* invocation logs the rate-limit line or leaves the loop with a task left,
\* and an invocation that returns success has called axios.get for each of
\* the nine tasks, whatever failed.
C18_BuiltInNeverRateLimited ==
  (taskList = "builtin" /\ maxRequests = maxRequestsBuiltIn) =>
    \A p \in Procs :
      /\ \A n \in 1..Len(contextLog[p]) : contextLog[p][n].level # "INFO"
      /\ requestsMade[p] < maxRequests
      /\ pc[p] # "idle" => calls[p] = taskIdx[p] - (IF pc[p] = "loop" THEN 1 ELSE 0)
      /\ result[p].status = "success" => calls[p] = Len(tasksBuiltIn) /\ taskIdx[p] = Len(tasksBuiltIn) + 1

\* C18 witness: a built-in run with budget 10 in which a call was rejected and
\* the processing of other responses threw has returned after nine calls.
C18_Witness ==
  /\ taskList = "builtin"
  /\ maxRequests = maxRequestsBuiltIn
  /\ faults >= 1
  /\ pc[1] = "idle"
  /\ result[1].status = "success"
  /\ Len(Errors(1)) >= 2
  /\ calls[1] = 9
  /\ result[1].requests_made = 8


\* the codes of the competition tasks of the queue
QueueCodes ==
  {CompCodeOf(tasks[i].endpoint) :
     i \in {n \in 1..Len(tasks) : Classify(tasks[n].endpoint) = "Competition"}}

\* the ids of the finished matches among the first ten entries of the
\* responses to the match tasks of the queue
QueueMatchIds ==
  UNION {{ResponseMatches(ResponseOf(i))[j].id : j \in Considered(ResponseMatches(ResponseOf(i)))} :
           i \in {n \in 1..Len(tasks) : Classify(tasks[n].endpoint) = "Match"}}

CodesOf(st) == {st.competitions[n].code : n \in 1..Len(st.competitions)}

MatchIdsOf(st) == {st.matches[n].match_id : n \in 1..Len(st.matches)}

\* C19: starting from the empty store, every invocation that returns clean
\* (success, no error, every task fetched) leaves the store with exactly the
\* competition codes of the queue and the ids of the finished matches of the
\* responses, each once; this holds for a clean first run and equally for a
\* clean run that follows a run with failures, and what the earlier run wrote
\* is still there as it was written.
C19_CleanRunRepairs ==
  \A r \in 1..Len(finished) :
    (initialStore = EmptyStore /\ Clean(finished[r])) =>
      LET st == finished[r].store
      IN  /\ CodesOf(st) = QueueCodes
          /\ MatchIdsOf(st) = QueueMatchIds
          /\ NoDuplicateCode(st)
          /\ NoDuplicateMatchId(st)
          /\ r > 1 =>
               /\ IsPrefix(finished[r - 1].store.competitions, st.competitions)
               /\ IsPrefix(finished[r - 1].store.matches, st.matches)

\* C19 witness: the first built-in run failed while it wrote match 103, after
\* it had written match 101, and went on; the second run was clean and the
\* store now has 103 and 101, 101 once.
C19_Witness ==
  /\ taskList = "builtin"
  /\ scenario = "regular"
  /\ initialStore = EmptyStore
  /\ Len(finished) = 2
  /\ finished[1].status = "success"
  /\ finished[1].errors = 1
  /\ 101 \in MatchIdsOf(finished[1].store)
  /\ 103 \notin MatchIdsOf(finished[1].store)
  /\ Clean(finished[2])
  /\ 103 \in MatchIdsOf(finished[2].store)
  /\ MatchIdsOf(finished[2].store) = {101, 103, 200}
  /\ Len(finished[2].store.matches) = 3


\* C20: the logs list of the handler is never appended to, so it is empty at
\* every moment and the result returned, success or error, has an empty logs
\* list, whatever has been given to context.log.
C20_ReturnedLogsEmpty ==
  \A p \in Procs :
    /\ logs[p] = << >>
    /\ result[p].status \in {"success", "error"} => result[p].logs = << >>

\* C20 witness: an invocation has returned success with an empty logs list
\* after its tasks gave two error lines to context.log.
C20_Witness ==
  /\ pc[1] = "idle"
  /\ result[1].status = "success"
  /\ result[1].logs = << >>
  /\ Len(Errors(1)) >= 2
  /\ \E r \in 1..Len(finished) : finished[r].status = "error"
====
